---- MODULE Spec2Model ----
(***************************************************************************)
(* Model of scripts/scraper.ts: fetchAnswer, extractDefinition,            *)
(* fetchHintsDirectly (verification bypass loop, final block check, reveal *)
(* block / difficulty extraction) and scrapeAndSave.                       *)
(*                                                                         *)
(* Strings are sequences of one-character strings.  "LQ" and "RQ" stand    *)
(* for U+201C and U+201D, "NL" for a line feed.                            *)
(***************************************************************************)
EXTENDS Integers, Sequences, FiniteSets, TLC

VARIABLES
    pc, error, calls,
    response, wordleData,
    bodyText, hasVerification, attempts, scrollingDown, scrolls, currentBody,
    finalBody, hintData, sink, returned,
    revealBlocks, blockIdx, consonant, vowel, dictionaryName, definition,
    strongNodes, strongIdx, difficultyText, difficulty,
    text, defResult

vars == <<pc, error, calls, response, wordleData, bodyText, hasVerification, attempts,
          scrollingDown, scrolls, currentBody, finalBody, hintData, sink,
          returned, revealBlocks, blockIdx, consonant, vowel, dictionaryName,
          definition, strongNodes, strongIdx, difficultyText, difficulty,
          text, defResult>>

blockVars == <<revealBlocks, blockIdx, consonant, vowel, dictionaryName, definition>>
strongVars == <<strongNodes, strongIdx, difficultyText, difficulty>>
defVars == <<text, defResult>>

(***************************************************************************)
(* Bounds of the explored inputs.                                          *)
(***************************************************************************)
MaxBlocks == 2
MaxStrong == 3
MaxBodyLen == 3

(***************************************************************************)
(* null / present values.                                                  *)
(***************************************************************************)
None == <<>>
Some(v) == <<v>>

(***************************************************************************)
(* String primitives.                                                      *)
(***************************************************************************)
LowerAlpha == <<"a", "b", "c", "d", "e", "f", "g", "h", "i", "j", "k", "l", "m", "n", "o", "p", "q", "r", "s", "t", "u", "v", "w", "x", "y", "z">>
UpperAlpha == <<"A", "B", "C", "D", "E", "F", "G", "H", "I", "J", "K", "L", "M", "N", "O", "P", "Q", "R", "S", "T", "U", "V", "W", "X", "Y", "Z">>
Digits == <<"0", "1", "2", "3", "4", "5", "6", "7", "8", "9">>

Range(s) == {s[i] : i \in 1..Len(s)}
Min(S) == CHOOSE x \in S : \A y \in S : x <= y
Max(S) == CHOOSE x \in S : \A y \in S : x >= y

LowerSet == Range(LowerAlpha)
UpperSet == Range(UpperAlpha)
DigitSet == Range(Digits)
IsLower(c) == c \in LowerSet
IsUpper(c) == c \in UpperSet
\* /[a-zA-Z]/
IsAlpha(c) == IsLower(c) \/ IsUpper(c)
\* \d
IsDigit(c) == c \in DigitSet
IsSpace(c) == c \in {" ", "NL"}
IsQuote(c) == c \in {"LQ", "RQ"}

IndexIn(c, alpha) == CHOOSE i \in 1..Len(alpha) : alpha[i] = c
UpperChar(c) == IF IsLower(c) THEN UpperAlpha[IndexIn(c, LowerAlpha)] ELSE c
LowerChar(c) == IF IsUpper(c) THEN LowerAlpha[IndexIn(c, UpperAlpha)] ELSE c
ToUpperCase(s) == [i \in 1..Len(s) |-> UpperChar(s[i])]
ToLowerCase(s) == [i \in 1..Len(s) |-> LowerChar(s[i])]

\* s has sub at position i
HasAt(s, i, sub) ==
    /\ i >= 1
    /\ i + Len(sub) - 1 <= Len(s)
    /\ SubSeq(s, i, i + Len(sub) - 1) = sub
Includes(s, sub) == \E i \in 1..(Len(s) + 1) : HasAt(s, i, sub)

Trim(s) ==
    LET keep == {i \in 1..Len(s) : ~IsSpace(s[i])}
    IN  IF keep = {} THEN <<>> ELSE SubSeq(s, Min(keep), Max(keep))

\* s.replace(/<phrase>/gi, ""), phrase given in upper case
RECURSIVE ReplaceAll(_, _)
ReplaceAll(s, phrase) ==
    IF s = <<>> THEN <<>>
    ELSE IF Len(s) >= Len(phrase) /\ ToUpperCase(SubSeq(s, 1, Len(phrase))) = phrase
         THEN ReplaceAll(SubSeq(s, Len(phrase) + 1, Len(s)), phrase)
         ELSE <<s[1]>> \o ReplaceAll(Tail(s), phrase)

\* cleanText.charAt(cleanText.length - 1) || cleanText.charAt(0)
CharAtLastOrFirst(s) == IF Len(s) > 0 THEN <<s[Len(s)]>> ELSE <<>>

RECURSIVE DigitsToNat(_)
DigitsToNat(s) ==
    IF s = <<>> THEN 0
    ELSE 10 * DigitsToNat(SubSeq(s, 1, Len(s) - 1)) + (IndexIn(s[Len(s)], Digits) - 1)

(***************************************************************************)
(* Program constants.                                                      *)
(***************************************************************************)
maxAttemptsDoubled == 2 * 60
maxAttempts == 60
MinDefinitionLen == 50
MarkerPatience == "Thank you for your patience"
MarkerVerify == "verify access"
MarkerCaptcha == "captcha-delivery"
MarkerDataDome == "DataDome"
Markers == {MarkerPatience, MarkerVerify, MarkerCaptcha, MarkerDataDome}
RequiredKeys == {"id", "solution", "days_since_launch", "print_date"}

PromptConsonant == <<"G", "I", "V", "E", " ", "M", "E", " ", "A", " ", "C", "O", "N", "S", "O", "N", "A", "N", "T">>
PromptVowel == <<"G", "I", "V", "E", " ", "M", "E", " ", "A", " ", "V", "O", "W", "E", "L">>
KwConsonant == <<"c", "o", "n", "s", "o", "n", "a", "n", "t">>
KwVowel == <<"v", "o", "w", "e", "l">>
KwReveal == <<"r", "e", "v", "e", "a", "l">>
AccordingTo == <<"A", "c", "c", "o", "r", "d", "i", "n", "g", " ", "t", "o">>
KwGuesses == <<"g", "u", "e", "s", "s", "e", "s">>
GuessesOutOf == <<" ", "g", "u", "e", "s", "s", "e", "s", " ", "o", "u", "t", " ", "o", "f", " ">>
CommaOr == <<",", " ", "o", "r", " ">>
LeadRefer == <<"i", "t", " ", "c", "o", "u", "l", "d", " ", "r", "e", "f", "e", "r", " ", "t", "o", " ">>
LeadMeans == <<"i", "t", " ", "m", "e", "a", "n", "s", " ">>
LeadMean == <<"i", "t", " ", "c", "o", "u", "l", "d", " ", "m", "e", "a", "n", " ">>

(***************************************************************************)
(* extractDefinition                                                       *)
(***************************************************************************)
\* the ordered lead-in templates
patterns == <<LeadRefer, LeadMeans, LeadMean>>

\* text.match(/<lead>(.+?)\.?$/i): the captured group, or None
MatchPattern(t, lead) ==
    LET lowered == ToLowerCase(t)
        starts == {i \in 1..Len(t) :
                      /\ HasAt(lowered, i, lead)
                      /\ i + Len(lead) <= Len(t)
                      /\ \A k \in (i + Len(lead))..Len(t) : t[k] # "NL"}
    IN  IF starts = {} THEN None
        ELSE LET i == Min(starts)
                 r == SubSeq(t, i + Len(lead), Len(t))
             IN  IF Len(r) >= 2 /\ r[Len(r)] = "."
                 THEN Some(SubSeq(r, 1, Len(r) - 1))
                 ELSE Some(r)

\* end of the maximal run of non-quote characters starting at i
RunEnd(s, i) ==
    CHOOSE e \in i..Len(s) :
        /\ \A k \in i..e : ~IsQuote(s[k])
        /\ (e = Len(s) \/ IsQuote(s[e + 1]))

\* fullText.match(/“([^“”]+)”?/g), scanning from p
RECURSIVE QuoteMatches(_, _)
QuoteMatches(s, p) ==
    IF p > Len(s) THEN <<>>
    ELSE IF s[p] = "LQ" /\ p < Len(s) /\ ~IsQuote(s[p + 1])
         THEN LET e == RunEnd(s, p + 1)
                  e2 == IF e < Len(s) /\ s[e + 1] = "RQ" THEN e + 1 ELSE e
              IN  <<SubSeq(s, p, e2)>> \o QuoteMatches(s, e2 + 1)
         ELSE QuoteMatches(s, p + 1)

\* .replace(/^“|”$/g, "")
StripQuotes(s) ==
    LET a == IF Len(s) > 0 /\ s[1] = "LQ" THEN Tail(s) ELSE s
    IN  IF Len(a) > 0 /\ a[Len(a)] = "RQ" THEN SubSeq(a, 1, Len(a) - 1) ELSE a

\* the while loop dropping trailing non-alphabetic characters
StripTrailingNonAlpha(s) ==
    LET alpha == {i \in 1..Len(s) : IsAlpha(s[i])}
    IN  IF alpha = {} THEN <<>> ELSE SubSeq(s, 1, Max(alpha))

\* the .map callback
CleanDef(def) == StripTrailingNonAlpha(Trim(StripQuotes(Trim(def))))

\* the .filter callback
KeepAll(def) == TRUE
NonEmpty(def) == Len(def) > 0

DefinitionsOf(group) ==
    LET fullText == Trim(group)
        raw == QuoteMatches(fullText, 1)
        cleaned == [i \in 1..Len(raw) |-> CleanDef(raw[i])]
        definitions == SelectSeq(cleaned, NonEmpty)
    IN  IF Len(raw) > 0 /\ Len(definitions) > 0 THEN Some(definitions) ELSE None

RECURSIVE TryPatterns(_, _, _)
TryPatterns(t, pats, k) ==
    IF k > Len(pats) THEN None
    ELSE LET m == MatchPattern(t, pats[k])
         IN  IF m # None THEN DefinitionsOf(m[1]) ELSE TryPatterns(t, pats, k + 1)

patternsSwapped == <<LeadMeans, LeadRefer, LeadMean>>
extractDefinitionSwapped(t) == TryPatterns(t, patternsSwapped, 1)
extractDefinition(t) == TryPatterns(t, patterns, 1)

(***************************************************************************)
(* Reveal block classification (the revealBlocks.each callback)            *)
(***************************************************************************)
EmptyHints == [consonant |-> <<>>, vowel |-> <<>>, dictionaryName |-> None, definition |-> None]

\* the letter taken from a consonant / vowel block
LetterOf(revealed, prompt) ==
    LET fullText == ToUpperCase(Trim(revealed))
        cleanText == Trim(ReplaceAll(fullText, prompt))
    IN  CharAtLastOrFirst(cleanText)

\* !dictionaryName
NoName(name) == name = None \/ name = Some(<<>>)

\* the paragraphs.each callback
ProcessParagraph(h, p) ==
    LET t == Trim(p.text)
        h1 == IF Includes(t, AccordingTo) /\ NoName(h.dictionaryName) /\ p.link # None
              THEN [h EXCEPT !.dictionaryName = Some(Trim(p.link[1]))]
              ELSE h
        d == extractDefinition(t)
    IN  IF Len(t) > MinDefinitionLen /\ h1.definition = None /\ d # None
        THEN [h1 EXCEPT !.definition = d]
        ELSE h1

RECURSIVE ProcessParagraphs(_, _, _)
ProcessParagraphs(h, ps, i) ==
    IF i > Len(ps) THEN h ELSE ProcessParagraphs(ProcessParagraph(h, ps[i]), ps, i + 1)

ProcessBlock(h, block) ==
    LET buttonText == ToLowerCase(Trim(block.label))
    IN  IF Includes(buttonText, KwConsonant) /\ h.consonant = <<>>
        THEN [h EXCEPT !.consonant = LetterOf(block.text, PromptConsonant)]
        ELSE IF Includes(buttonText, KwVowel) /\ h.vowel = <<>>
        THEN [h EXCEPT !.vowel = LetterOf(block.text, PromptVowel)]
        ELSE IF Includes(buttonText, KwReveal) /\ h.definition = None
        THEN ProcessParagraphs(h, block.paragraphs, 1)
        ELSE h

RECURSIVE ProcessBlocks(_, _, _)
ProcessBlocks(h, blocks, i) ==
    IF i > Len(blocks) THEN h ELSE ProcessBlocks(ProcessBlock(h, blocks[i]), blocks, i + 1)

(***************************************************************************)
(* Difficulty                                                              *)
(***************************************************************************)
\* the $("strong").each callback
ScanStrong(current, nodeText) ==
    IF Includes(nodeText, KwGuesses) THEN nodeText ELSE current

RECURSIVE ScanStrongAll(_, _, _)
ScanStrongAll(current, nodes, i) ==
    IF i > Len(nodes) THEN current ELSE ScanStrongAll(ScanStrong(current, nodes[i]), nodes, i + 1)

DigitRunEnd(s, i) ==
    CHOOSE e \in i..Len(s) :
        /\ \A k \in i..e : IsDigit(s[k])
        /\ (e = Len(s) \/ ~IsDigit(s[e + 1]))

\* end of \d+(?:\.\d+)? starting at i
NumberEnd(s, i) ==
    LET e1 == DigitRunEnd(s, i)
    IN  IF e1 + 2 <= Len(s) /\ s[e1 + 1] = "." /\ IsDigit(s[e1 + 2])
        THEN DigitRunEnd(s, e1 + 2)
        ELSE e1

\* Number.parseFloat of a \d+(?:\.\d+)? string: whole part and fraction digits
\* without trailing zeros
ParseFloat(s) ==
    LET e1 == DigitRunEnd(s, 1)
        fr == IF e1 < Len(s) THEN SubSeq(s, e1 + 2, Len(s)) ELSE <<>>
        nz == {i \in 1..Len(fr) : fr[i] # "0"}
    IN  [whole |-> DigitsToNat(SubSeq(s, 1, e1)),
         frac |-> IF nz = {} THEN <<>> ELSE SubSeq(fr, 1, Max(nz))]

\* difficultyText.match(/(\d+(?:\.\d+)?) guesses out of (\d+)/)
DifficultyMatch(s) ==
    LET starts == {i \in 1..Len(s) :
                      /\ IsDigit(s[i])
                      /\ LET e == NumberEnd(s, i)
                         IN  /\ HasAt(s, e + 1, GuessesOutOf)
                             /\ e + Len(GuessesOutOf) + 1 <= Len(s)
                             /\ IsDigit(s[e + Len(GuessesOutOf) + 1])}
    IN  IF starts = {} THEN None
        ELSE LET i == Min(starts)
                 e == NumberEnd(s, i)
                 j == e + Len(GuessesOutOf) + 1
             IN  Some(<<SubSeq(s, i, e), SubSeq(s, j, DigitRunEnd(s, j))>>)

\* difficultyText.match(/, or ([^.]+)\./)?.[1] ?? null
FriendlyText(s) ==
    LET starts == {i \in 1..Len(s) :
                      /\ HasAt(s, i, CommaOr)
                      /\ i + Len(CommaOr) <= Len(s)
                      /\ s[i + Len(CommaOr)] # "."
                      /\ \E k \in (i + Len(CommaOr))..Len(s) : s[k] = "."}
    IN  IF starts = {} THEN None
        ELSE LET i == Min(starts)
                 dot == Min({k \in (i + Len(CommaOr))..Len(s) : s[k] = "."})
             IN  Some(SubSeq(s, i + Len(CommaOr), dot - 1))

ParseDifficulty(s) ==
    LET difficultyMatch == DifficultyMatch(s)
    IN  [difficulty |-> IF difficultyMatch # None
                        THEN Some(ParseFloat(difficultyMatch[1][1])) ELSE None,
         maxDifficulty |-> IF difficultyMatch # None
                           THEN Some(ParseFloat(difficultyMatch[1][2])) ELSE None,
         text |-> FriendlyText(s)]

(***************************************************************************)
(* Inputs supplied by the collaborators (network, browser, file system).   *)
(***************************************************************************)
SolCrane == <<"c", "r", "a", "n", "e">>
SolAb == <<"A", "b">>
LabelConsonant == <<"G", "i", "v", "e", " ", "m", "e", " ", "a", " ", "c", "o", "n", "s", "o", "n", "a", "n", "t">>
LabelVowel == <<" ", "G", "i", "v", "e", " ", "m", "e", " ", "a", " ", "v", "o", "w", "e", "l", " ">>
LabelBoth == <<"C", "o", "n", "s", "o", "n", "a", "n", "t", " ", "o", "r", " ", "v", "o", "w", "e", "l">>
LabelReveal == <<"R", "e", "v", "e", "a", "l", " ", "t", "o", "d", "a", "y", "'", "s", " ", "w", "o", "r", "d">>
TextB == <<"b">>
TextPromptC == <<"G", "i", "v", "e", " ", "m", "e", " ", "a", " ", "c", "o", "n", "s", "o", "n", "a", "n", "t", " ", "C">>
TextBDot == <<"B", ".">>
TextSeven == <<"7">>
ParaDef == <<"A", "c", "c", "o", "r", "d", "i", "n", "g", " ", "t", "o", " ", "W", "e", "b", "s", "t", "e", "r", ",", " ", "i", "t", " ", "m", "e", "a", "n", "s", " ", "LQ", "a", " ", "b", "i", "r", "d", "RQ", " ", "o", "r", " ", "LQ", "a", " ", "m", "o", "v", "e", "m", "e", "n", "t", ".", "RQ">>
ParaShort == <<"I", "t", " ", "m", "e", "a", "n", "s", " ", "LQ", "a", " ", "b", "i", "r", "d", ".", "RQ">>
ParaRefer == <<"A", "c", "c", "o", "r", "d", "i", "n", "g", " ", "t", "o", " ", "C", "o", "l", "l", "i", "n", "s", ",", " ", "i", "t", " ", "c", "o", "u", "l", "d", " ", "r", "e", "f", "e", "r", " ", "t", "o", " ", "LQ", "a", " ", "t", "o", "o", "l", "RQ", " ", "a", "n", "d", " ", "LQ", "1", "RQ", ".">>
LinkWebster == <<"W", "e", "b", "s", "t", "e", "r">>
LinkCollins == <<"C", "o", "l", "l", "i", "n", "s">>
StrongHard == <<"3", ".", "2", " ", "g", "u", "e", "s", "s", "e", "s", " ", "o", "u", "t", " ", "o", "f", " ", "4", ",", " ", "o", "r", " ", "H", "a", "r", "d", ".">>
StrongEasy == <<"1", "2", " ", "g", "u", "e", "s", "s", "e", "s", " ", "o", "u", "t", " ", "o", "f", " ", "6", ",", " ", "o", "r", " ", "E", "a", "s", "y", ".">>
StrongPlain == <<"S", "p", "o", "i", "l", "e", "r", "s">>
StrongBare == <<"g", "u", "e", "s", "s", "e", "s">>
LeadReferCap == <<"I", "t", " ", "c", "o", "u", "l", "d", " ", "r", "e", "f", "e", "r", " ", "t", "o", " ">>
HeadMeans == <<"i", "t", " ", "m", "e", "a", "n", "s", " ", "LQ", "a", "RQ", " ">>
HeadMean == <<"I", "t", " ", "c", "o", "u", "l", "d", " ", "m", "e", "a", "n", " ", "LQ", "b", "RQ", ".", " ">>
HeadReferNL == <<"i", "t", " ", "c", "o", "u", "l", "d", " ", "r", "e", "f", "e", "r", " ", "t", "o", " ", "LQ", "c", "RQ", "NL">>

\* sequences over S of length at most n
SeqsUpTo(S, n) == UNION {[1..k -> S] : k \in 0..n}

\* what page.goto(apiUrl) and response.json() can produce: no response, a
\* non-ok status, a body that does not parse, or a parsed object with some of
\* the keys; its solution is a string or a value of another type
NoResponse == [present |-> FALSE, ok |-> FALSE, json |-> FALSE, keys |-> {},
               solution |-> <<>>, solutionIsString |-> FALSE]
ApiKeys == RequiredKeys \cup {"editor"}
Responses ==
    {NoResponse,
     [NoResponse EXCEPT !.present = TRUE],
     [NoResponse EXCEPT !.present = TRUE, !.ok = TRUE]}
    \cup {[present |-> TRUE, ok |-> TRUE, json |-> TRUE, keys |-> ks,
           solution |-> <<>>, solutionIsString |-> FALSE] :
             ks \in SUBSET ApiKeys}
    \cup {[present |-> TRUE, ok |-> TRUE, json |-> TRUE, keys |-> ks \cup {"solution"},
           solution |-> sol, solutionIsString |-> TRUE] :
             ks \in SUBSET ApiKeys, sol \in {SolCrane, SolAb, <<>>}}
\* the replies the whole pipeline is run on
PipelineResponses ==
    {r \in Responses :
        /\ r.solution \in {<<>>, SolCrane}
        /\ r.keys \in {{}, ApiKeys, ApiKeys \ {"days_since_launch"}, ApiKeys \ {"solution"}}}

\* what page.textContent("body") can contain: the markers present in it
\* (a failed read is caught and yields "", i.e. no marker)
Bodies == SUBSET Markers

LetterBlocks ==
    {[label |-> l, text |-> t, paragraphs |-> <<>>] :
        l \in {LabelConsonant, LabelVowel, LabelBoth},
        t \in {TextB, TextPromptC, TextBDot, TextSeven, <<>>}}
RevealBlocks ==
    {[label |-> LabelReveal, text |-> <<>>,
      paragraphs |-> <<[text |-> ParaShort, link |-> None],
                       [text |-> ParaDef, link |-> Some(LinkWebster)]>>],
     [label |-> LabelReveal, text |-> <<>>,
      paragraphs |-> <<[text |-> ParaRefer, link |-> Some(LinkCollins)]>>]}
BlockPool == LetterBlocks \cup RevealBlocks
StrongPool == {StrongHard, StrongEasy, StrongPlain, StrongBare}

\* the rendered pages the pipeline is run on
Pages ==
    {[blocks |-> <<>>, strong |-> <<>>],
     [blocks |-> <<[label |-> LabelConsonant, text |-> TextPromptC, paragraphs |-> <<>>],
                   [label |-> LabelVowel, text |-> TextB, paragraphs |-> <<>>],
                   [label |-> LabelReveal, text |-> <<>>,
                    paragraphs |-> <<[text |-> ParaDef, link |-> Some(LinkWebster)]>>]>>,
      strong |-> <<StrongPlain, StrongHard>>]}

BodyAlphabet == {"LQ", "RQ", "a", "1", ".", " "}
Heads == {<<>>, HeadMeans, HeadMean, HeadReferNL}
Leads == {<<>>, LeadRefer, LeadMeans, LeadMean, LeadReferCap}
Mids == {<<>>, <<"LQ", "b", "RQ", " ">>}
Texts ==
    {h \o l \o m \o b :
        h \in Heads, l \in Leads, m \in Mids, b \in SeqsUpTo(BodyAlphabet, MaxBodyLen)}

(***************************************************************************)
(* scrapeAndSave: fetchAnswer, then fetchHintsDirectly, then the write.    *)
(***************************************************************************)
\* a throw inside the try of scrapeAndSave: logged and rethrown, nothing written
ThrowWritesPartial(err) ==
    /\ error' = err
    /\ pc' = "failed"
    /\ sink' = Append(sink, hintData)
    /\ UNCHANGED returned
Throw(err) ==
    /\ error' = err
    /\ pc' = "failed"
    /\ UNCHANGED <<sink, returned>>

\* fetchAnswer(ts), given the collaborator's reply: the error thrown, or the
\* record returned
fetchAnswer(resp) ==
    IF ~resp.present \/ ~resp.ok
    THEN [error |-> "ApiRequestFailed", data |-> None]
    ELSE IF ~resp.json
    THEN [error |-> "JsonError", data |-> None]
    ELSE IF "solution" \notin resp.keys \/ ~resp.solutionIsString
    THEN [error |-> "TypeError", data |-> None]
    ELSE [error |-> "none",
          data |-> Some([keys |-> resp.keys,
                         solution |-> resp.solution,
                         letters |-> [i \in 1..Len(resp.solution) |->
                                         [char |-> UpperChar(resp.solution[i]),
                                          status |-> "correct"]],
                         error |-> FALSE])]

\* const wordleData = await fetchAnswer(ts) in scrapeAndSave
FetchAnswer ==
    /\ pc = "scrapeAndSave"
    /\ calls' = Append(calls, "fetchAnswer")
    /\ \E resp \in PipelineResponses :
          /\ response' = resp
          /\ IF fetchAnswer(resp).error # "none"
             THEN Throw(fetchAnswer(resp).error) /\ UNCHANGED wordleData
             ELSE /\ wordleData' = fetchAnswer(resp).data
                  /\ pc' = "fetchHintsDirectly"
                  /\ UNCHANGED <<error, sink, returned>>
    /\ UNCHANGED <<bodyText, hasVerification, attempts, scrollingDown, scrolls,
                   currentBody, finalBody, hintData>>
    /\ UNCHANGED <<blockVars, strongVars, defVars>>

\* fetchHintsDirectly: page.goto(hintsUrl)
Navigate ==
    /\ pc = "fetchHintsDirectly"
    /\ wordleData # None
    /\ ~wordleData[1].error
    /\ calls' = Append(calls, "fetchHintsDirectly")
    /\ \E loaded \in BOOLEAN :
          IF loaded
          THEN pc' = "inspect" /\ UNCHANGED <<error, sink, returned>>
          ELSE Throw("NavigationError")
    /\ UNCHANGED <<response, wordleData, bodyText, hasVerification, attempts, scrollingDown,
                   scrolls, currentBody, finalBody, hintData>>
    /\ UNCHANGED <<blockVars, strongVars, defVars>>

\* the marker test applied to a body text
AlwaysVerification(body) == TRUE
HasVerification(body) ==
    \/ MarkerPatience \in body
    \/ MarkerVerify \in body
    \/ MarkerCaptcha \in body
    \/ MarkerDataDome \in body

\* the initial inspection
InspectInitial ==
    /\ pc = "inspect"
    /\ \E body \in Bodies :
          /\ bodyText' = body
          /\ hasVerification' = HasVerification(body)
          /\ pc' = IF HasVerification(body) THEN "loop" ELSE "contentWait"
    /\ attempts' = 0
    /\ scrollingDown' = TRUE
    /\ UNCHANGED <<error, calls, response, wordleData, scrolls, currentBody, finalBody,
                   hintData, sink, returned>>
    /\ UNCHANGED <<blockVars, strongVars, defVars>>

\* one iteration of the while loop: scroll, wait, re-inspect
ScrollCycle ==
    /\ pc = "loop"
    /\ attempts < maxAttempts
    /\ scrolls' = scrolls + 1
    /\ scrollingDown' = ~scrollingDown
    /\ attempts' = attempts + 2
    /\ \E body \in Bodies :
          /\ currentBody' = body
          /\ pc' = IF ~HasVerification(body) THEN "afterLoop"
                   ELSE IF attempts + 2 < maxAttempts THEN "loop"
                   ELSE "afterLoop"
    /\ UNCHANGED <<error, calls, response, wordleData, bodyText, hasVerification, finalBody,
                   hintData, sink, returned>>
    /\ UNCHANGED <<blockVars, strongVars, defVars>>

\* if (attempts >= maxAttempts) throw
BudgetCheck ==
    /\ pc = "afterLoop"
    /\ IF attempts >= maxAttempts
       THEN Throw("VerificationTimeout")
       ELSE pc' = "contentWait" /\ UNCHANGED <<error, sink, returned>>
    /\ UNCHANGED <<calls, response, wordleData, bodyText, hasVerification, attempts,
                   scrollingDown, scrolls, currentBody, finalBody, hintData>>
    /\ UNCHANGED <<blockVars, strongVars, defVars>>

\* the test applied to the final body text
StillBlockedCaptchaOnly(body) == MarkerCaptcha \in body
StillBlocked(body) == MarkerCaptcha \in body \/ MarkerDataDome \in body

\* the final inspection after the content wait
FinalInspect ==
    /\ pc = "contentWait"
    /\ \E body \in Bodies :
          /\ finalBody' = Some(body)
          /\ IF StillBlocked(body)
             THEN Throw("StillBlocked")
             ELSE pc' = "extract" /\ UNCHANGED <<error, sink, returned>>
    /\ UNCHANGED <<calls, response, wordleData, bodyText, hasVerification, attempts,
                   scrollingDown, scrolls, currentBody, hintData>>
    /\ UNCHANGED <<blockVars, strongVars, defVars>>

hintsUrl(data) ==
    [puzzle |-> IF "days_since_launch" \in data.keys THEN "days_since_launch" ELSE "undefined"]

\* everything from page.content() to the return statement
ExtractHints(page, url) ==
    LET h == ProcessBlocks(EmptyHints, page.blocks, 1)
        d == ParseDifficulty(ScanStrongAll(<<>>, page.strong, 1))
    IN  [hint |-> [consonant |-> h.consonant, vowel |-> h.vowel],
         difficulty |-> d,
         details |-> [definition |-> h.definition,
                      source |-> [name |-> h.dictionaryName, url |-> url]]]

Extract ==
    /\ pc = "extract"
    /\ \E page \in Pages, saved \in BOOLEAN :
          IF saved
          THEN /\ hintData' = Some(ExtractHints(page, hintsUrl(wordleData[1])))
               /\ pc' = "write"
               /\ UNCHANGED <<error, sink, returned>>
          ELSE Throw("DebugWriteError") /\ UNCHANGED hintData
    /\ UNCHANGED <<calls, response, wordleData, bodyText, hasVerification, attempts,
                   scrollingDown, scrolls, currentBody, finalBody>>
    /\ UNCHANGED <<blockVars, strongVars, defVars>>

\* Bun.write(filePath, ...) and return outputData
WriteRecord ==
    /\ pc = "write"
    /\ hintData # None
    /\ calls' = Append(calls, "write")
    /\ \E written \in BOOLEAN :
          IF written
          THEN /\ sink' = Append(sink, hintData)
               /\ returned' = hintData
               /\ pc' = "done"
               /\ UNCHANGED error
          ELSE Throw("WriteError")
    /\ UNCHANGED <<response, wordleData, bodyText, hasVerification, attempts, scrollingDown,
                   scrolls, currentBody, finalBody, hintData>>
    /\ UNCHANGED <<blockVars, strongVars, defVars>>

PipelineIdle ==
    /\ pc = "scrapeAndSave" /\ error = "none" /\ calls = <<>>
    /\ response = NoResponse /\ wordleData = None
    /\ bodyText = {} /\ hasVerification = FALSE /\ attempts = 0
    /\ scrollingDown = TRUE /\ scrolls = 0 /\ currentBody = {}
    /\ finalBody = None /\ hintData = None /\ sink = <<>> /\ returned = None
BlocksIdle ==
    /\ revealBlocks = <<>> /\ blockIdx = 1
    /\ consonant = <<>> /\ vowel = <<>> /\ dictionaryName = None /\ definition = None
StrongIdle ==
    /\ strongNodes = <<>> /\ strongIdx = 1 /\ difficultyText = <<>>
    /\ difficulty = [difficulty |-> None, maxDifficulty |-> None, text |-> None]
DefIdle ==
    /\ text = <<>> /\ defResult = None

Init == PipelineIdle /\ BlocksIdle /\ StrongIdle /\ DefIdle

Next ==
    \/ FetchAnswer
    \/ Navigate
    \/ InspectInitial
    \/ ScrollCycle
    \/ BudgetCheck
    \/ FinalInspect
    \/ Extract
    \/ WriteRecord

Spec == Init /\ [][Next]_vars

(***************************************************************************)
(* fetchAnswer on its own, over every reply.                               *)
(***************************************************************************)
answerVars == <<calls, bodyText, hasVerification, attempts, scrollingDown, scrolls,
                currentBody, finalBody, hintData, sink, returned>>
PipelineRest ==
    /\ calls = <<>> /\ bodyText = {} /\ hasVerification = FALSE /\ attempts = 0
    /\ scrollingDown = TRUE /\ scrolls = 0 /\ currentBody = {}
    /\ finalBody = None /\ hintData = None /\ sink = <<>> /\ returned = None

InitAnswer ==
    /\ pc = "fetchAnswer" /\ error = "none"
    /\ response \in Responses /\ wordleData = None
    /\ PipelineRest /\ BlocksIdle /\ StrongIdle /\ DefIdle

CallFetchAnswer ==
    /\ pc = "fetchAnswer"
    /\ wordleData' = fetchAnswer(response).data
    /\ error' = fetchAnswer(response).error
    /\ pc' = IF fetchAnswer(response).error = "none" THEN "returned" ELSE "threw"
    /\ UNCHANGED <<response, answerVars, blockVars, strongVars, defVars>>

NextAnswer == CallFetchAnswer
SpecAnswer == InitAnswer /\ [][NextAnswer]_vars

(***************************************************************************)
(* The reveal block loop of fetchHintsDirectly, block by block.            *)
(***************************************************************************)
InitBlocks ==
    /\ pc = "blocks" /\ error = "none" /\ response = NoResponse /\ wordleData = None
    /\ PipelineRest
    /\ revealBlocks \in SeqsUpTo(BlockPool, MaxBlocks) /\ blockIdx = 1
    /\ consonant = <<>> /\ vowel = <<>> /\ dictionaryName = None /\ definition = None
    /\ StrongIdle /\ DefIdle

EachBlock ==
    /\ pc = "blocks"
    /\ blockIdx <= Len(revealBlocks)
    /\ LET h == ProcessBlock([consonant |-> consonant, vowel |-> vowel,
                              dictionaryName |-> dictionaryName,
                              definition |-> definition],
                             revealBlocks[blockIdx])
       IN  /\ consonant' = h.consonant
           /\ vowel' = h.vowel
           /\ dictionaryName' = h.dictionaryName
           /\ definition' = h.definition
    /\ blockIdx' = blockIdx + 1
    /\ UNCHANGED <<pc, error, response, wordleData, answerVars, revealBlocks,
                   strongVars, defVars>>

NextBlocks == EachBlock
SpecBlocks == InitBlocks /\ [][NextBlocks]_vars

(***************************************************************************)
(* The difficulty scan of fetchHintsDirectly, node by node.                *)
(***************************************************************************)
InitStrong ==
    /\ pc = "strong" /\ error = "none" /\ response = NoResponse /\ wordleData = None
    /\ PipelineRest /\ BlocksIdle /\ DefIdle
    /\ strongNodes \in SeqsUpTo(StrongPool, MaxStrong) /\ strongIdx = 1
    /\ difficultyText = <<>>
    /\ difficulty = [difficulty |-> None, maxDifficulty |-> None, text |-> None]

EachStrong ==
    /\ pc = "strong"
    /\ strongIdx <= Len(strongNodes)
    /\ difficultyText' = ScanStrong(difficultyText, strongNodes[strongIdx])
    /\ strongIdx' = strongIdx + 1
    /\ UNCHANGED <<pc, error, response, wordleData, answerVars, blockVars,
                   strongNodes, difficulty, defVars>>

MatchDifficulty ==
    /\ pc = "strong"
    /\ strongIdx > Len(strongNodes)
    /\ difficulty' = ParseDifficulty(difficultyText)
    /\ pc' = "parsed"
    /\ UNCHANGED <<error, response, wordleData, answerVars, blockVars,
                   strongNodes, strongIdx, difficultyText, defVars>>

NextStrong == EachStrong \/ MatchDifficulty
SpecStrong == InitStrong /\ [][NextStrong]_vars

(***************************************************************************)
(* extractDefinition on its own, over bounded paragraph texts.             *)
(***************************************************************************)
InitDef ==
    /\ pc = "extractDefinition" /\ error = "none" /\ response = NoResponse
    /\ wordleData = None /\ PipelineRest /\ BlocksIdle /\ StrongIdle
    /\ text \in Texts /\ defResult = None

CallExtractDefinition ==
    /\ pc = "extractDefinition"
    /\ defResult' = extractDefinition(text)
    /\ pc' = "extracted"
    /\ UNCHANGED <<error, response, wordleData, answerVars, blockVars, strongVars, text>>

NextDef == CallExtractDefinition
SpecDef == InitDef /\ [][NextDef]_vars

(***************************************************************************)
(* Properties.                                                             *)
(***************************************************************************)
NoMarker(body) == body \cap Markers = {}
LoopEntered == hasVerification /\ pc \notin {"scrapeAndSave", "fetchHintsDirectly", "inspect"}
LoopLeft == LoopEntered /\ pc \notin {"loop", "afterLoop"}

\* C1: if the loop was entered and the re-inspection after the j-th scroll
\* cycle finds no marker, then for every j in 1..30 the engine has stopped
\* after exactly j cycles as Cleared: no verification-timeout error is raised
\* and the run continues past the budget check.
C1_ClearedAfterAnyCycle ==
    \A j \in 1..30 :
        (LoopLeft /\ scrolls = j /\ NoMarker(currentBody))
            => (error # "VerificationTimeout" /\ attempts = 2 * j)

\* C2: when the initial inspection finds none of the markers, the bypass is
\* over with zero scroll actions and zero loop iterations, and never times out.
C2_NoMarkerNoScroll ==
    (pc \notin {"scrapeAndSave", "fetchHintsDirectly", "inspect"} /\ NoMarker(bodyText))
        => /\ scrolls = 0
           /\ attempts = 0
           /\ pc \notin {"loop", "afterLoop"}
           /\ error # "VerificationTimeout"
C2_Witness ==
    /\ pc = "contentWait"
    /\ NoMarker(bodyText)
    /\ calls = <<"fetchAnswer", "fetchHintsDirectly">>

\* C3: the loop never performs more than 30 scroll cycles; when a marker was
\* present at the initial inspection and at every re-inspection, the loop
\* ends after exactly 30 cycles with the verification-timeout error and no
\* field is extracted.
C3_TimeoutAfterBudget ==
    /\ scrolls <= 30
    /\ (LoopLeft /\ ~NoMarker(currentBody))
          => /\ scrolls = 30
             /\ error = "VerificationTimeout"
             /\ pc = "failed"
             /\ hintData = None
    /\ (error = "VerificationTimeout") => (scrolls = 30 /\ hintData = None)
C3_Witness ==
    /\ error = "VerificationTimeout"
    /\ ~NoMarker(bodyText)
    /\ ~NoMarker(currentBody)
    /\ scrolls = 30

\* C4: fetchAnswer fails whenever the response is non-success or the parsed
\* body lacks one of id, solution, days_since_launch, print_date; it returns
\* no record with error = false built from such a body.
C4_MissingKeyFails ==
    (pc \in {"returned", "threw"}
       /\ (~response.present \/ ~response.ok \/ ~(RequiredKeys \subseteq response.keys)))
        => (error # "none" /\ wordleData = None)

\* C5: the record is written and returned only after fetchAnswer and then
\* fetchHintsDirectly succeeded, in that order; hint scraping starts only
\* after fetchAnswer succeeded; on an error nothing is written or returned
\* and no step is run twice.
C5_WriteOnlyAfterBoth ==
    /\ (sink # <<>> \/ returned # None)
          => /\ wordleData # None
             /\ hintData # None
             /\ error = "none"
             /\ calls = <<"fetchAnswer", "fetchHintsDirectly", "write">>
             /\ sink = <<hintData>>
             /\ returned = hintData
    /\ (Len(calls) >= 2) => (calls[2] = "fetchHintsDirectly" /\ wordleData # None)
    /\ (error # "none") => (sink = <<>> /\ returned = None /\ pc = "failed")
    /\ \E k \in 0..3 : calls = SubSeq(<<"fetchAnswer", "fetchHintsDirectly", "write">>, 1, k)
C5_Witness ==
    /\ pc = "done"
    /\ sink = <<hintData>>
    /\ hintData # None

\* the label of the block about to be processed, as the callback reads it
CurrentLabel == ToLowerCase(Trim(revealBlocks[blockIdx].label))

\* C6: once consonant is set, a later consonant-labelled block changes no
\* field (consonant, vowel, definitions, source name); likewise once vowel is
\* set for a later vowel-labelled block.
C6_LaterBlockIgnored ==
    [][(pc = "blocks" /\ blockIdx <= Len(revealBlocks)
          /\ \/ (consonant # <<>> /\ Includes(CurrentLabel, KwConsonant))
             \/ (vowel # <<>> /\ Includes(CurrentLabel, KwVowel)))
        => UNCHANGED <<consonant, vowel, dictionaryName, definition>>]_vars

\* the first strong node containing "guesses", or "" when there is none
FirstGuessesText ==
    LET hits == {i \in 1..Len(strongNodes) : Includes(strongNodes[i], KwGuesses)}
    IN  IF hits = {} THEN <<>> ELSE strongNodes[Min(hits)]

\* C7: the difficulty text parsed is that of the first strong node containing
\* "guesses"; score, max and label are derived from it.
C7_FirstGuessesNodeWins ==
    (pc = "parsed")
        => /\ difficultyText = FirstGuessesText
           /\ difficulty = ParseDifficulty(FirstGuessesText)

IsLetterOrEmpty(s) == s = <<>> \/ (Len(s) = 1 /\ s[1] \in UpperSet)

\* C8: consonant and vowel are each the empty string or exactly one letter A-Z.
C8_SingleUppercaseLetter ==
    IsLetterOrEmpty(consonant) /\ IsLetterOrEmpty(vowel)

\* the lead-in templates in their stated order, and whether one matches
TemplateOrder == <<LeadRefer, LeadMeans, LeadMean>>
TemplateMatches(t, lead) ==
    \E i \in 1..Len(t) :
        /\ i + Len(lead) <= Len(t)
        /\ ToLowerCase(SubSeq(t, i, i + Len(lead) - 1)) = lead
        /\ "NL" \notin {t[k] : k \in (i + Len(lead))..Len(t)}
MatchingTemplates == {k \in 1..Len(TemplateOrder) : TemplateMatches(text, TemplateOrder[k])}
\* the span captured by the first matching template
FirstSpan == MatchPattern(text, TemplateOrder[Min(MatchingTemplates)])[1]
\* the opening quotes of the curly-quoted sub-spans of a span
SubSpans(span) ==
    {p \in 1..(Len(span) - 1) : span[p] = "LQ" /\ ~IsQuote(span[p + 1])}
\* those sub-spans that contain a letter
LetterSpans(span) ==
    {p \in SubSpans(span) :
        \E k \in (p + 1)..Len(span) :
            IsAlpha(span[k]) /\ \A m \in (p + 1)..k : ~IsQuote(span[m])}
\* the i-th element of a set of positions, in increasing order
Nth(S, i) == CHOOSE p \in S : Cardinality({q \in S : q <= p}) = i
\* entry e lies inside the sub-span opened at p
InsideSubSpan(span, p, e) ==
    \E q \in (p + 1)..Len(span) :
        HasAt(span, q, e) /\ q + Len(e) - 1 <= RunEnd(span, p + 1)

\* C9 (as stated): the result is null or a non-empty list with one entry per
\* curly-quoted sub-span of the span of the first matching template, in
\* order, every entry non-empty, free of its quotes and of trailing
\* punctuation residue, and ending in a letter.
C9_OneEntryPerSubSpan ==
    (pc = "extracted" /\ defResult # None)
        => /\ MatchingTemplates # {}
           /\ Len(defResult[1]) > 0
           /\ Len(defResult[1]) = Cardinality(SubSpans(FirstSpan))
           /\ \A i \in 1..Len(defResult[1]) :
                 LET e == defResult[1][i]
                 IN  /\ Len(e) > 0
                     /\ ~IsQuote(e[1]) /\ ~IsSpace(e[1])
                     /\ \A k \in 1..Len(e) : ~IsQuote(e[k])
                     /\ IsAlpha(e[Len(e)])

\* C9 (amended): the result is null or a non-empty list with one entry per
\* curly-quoted sub-span containing a letter (sub-spans without a letter are
\* dropped) of the span of the first matching template, in order; every entry
\* is non-empty, lies inside its sub-span, has its quotes and surrounding
\* white space removed and its trailing non-letters removed, and ends in a
\* letter.
C9_OneEntryPerLetterSubSpan ==
    (pc = "extracted" /\ defResult # None)
        => /\ MatchingTemplates # {}
           /\ Len(defResult[1]) > 0
           /\ Len(defResult[1]) = Cardinality(LetterSpans(FirstSpan))
           /\ \A i \in 1..Len(defResult[1]) :
                 LET e == defResult[1][i]
                 IN  /\ Len(e) > 0
                     /\ ~IsQuote(e[1]) /\ ~IsSpace(e[1])
                     /\ \A k \in 1..Len(e) : ~IsQuote(e[k])
                     /\ IsAlpha(e[Len(e)])
                     /\ InsideSubSpan(FirstSpan, Nth(LetterSpans(FirstSpan), i), e)
C9_Witness ==
    /\ pc = "extracted"
    /\ defResult # None
    /\ Cardinality(MatchingTemplates) >= 2
    /\ Len(defResult[1]) >= 1
    /\ Cardinality(SubSpans(FirstSpan)) > Len(defResult[1])

\* C10: a HintResponse is produced only if the final body text contains
\* neither "captcha-delivery" nor "DataDome"; if it contains either, the run
\* fails and nothing is extracted, also after the bypass loop had cleared.
C10_FinalBlockCheck ==
    /\ (hintData # None)
          => (finalBody # None /\ finalBody[1] \cap {"captcha-delivery", "DataDome"} = {})
    /\ (finalBody # None /\ finalBody[1] \cap {"captcha-delivery", "DataDome"} # {})
          => (error = "StillBlocked" /\ pc = "failed" /\ hintData = None)
C10_Witness ==
    /\ error = "StillBlocked"
    /\ hasVerification /\ scrolls > 0 /\ NoMarker(currentBody)
    /\ finalBody # None /\ "DataDome" \in finalBody[1]

====
